---- MODULE Spec2Model ----
(***************************************************************************)
(* TinyPedal: relative / standings computation of module_relative.py, its  *)
(* calculation thread (start, loop, publication, exit) and                 *)
(* circular_relative_distance of calculation.py.                           *)
(*                                                                         *)
(* Python lists are sequences (1-based here, 0-based in the source; PyGet  *)
(* does the translation, negative indices included).  Lap distances, track *)
(* lengths and lap times are floats in the source and integers here; class *)
(* names are strings in the source and small integers here, ordered as the *)
(* strings are.                                                            *)
(***************************************************************************)
EXTENDS Integers, Sequences, FiniteSets, TLC

VARIABLES
    pc,                 \* "input": inputs drawn, "done": operation returned, "raised": it raised
    circle_length,      \* arguments and result of circular_relative_distance
    plr_dist,
    opt_dist,
    rel_dist,
    mLapDist,           \* info.LastScor.mScoringInfo.mLapDist (track length)
    mSession,           \* info.LastScor.mScoringInfo.mSession
    mNumVehicles,       \* info.LastTele.mNumVehicles
    mVehicles,          \* info.LastScor.mVehicles[0 .. n-1], kept as a sequence 1 .. n
    players_scor_index, \* info.players_scor_index
    setting_user,       \* the configuration options the module reads
    relative,           \* Realtime.relative
    vehicle_classes,    \* mctrl.vehicle_classes
    unique_veh_class,   \* the list(set(...)) of the last class grouping
    window_call,        \* the arguments of a call of __calc_standings_index
    standings,          \* Realtime.standings
    running,            \* Realtime.running
    stopped,            \* Realtime.stopped
    active_module_list, \* cfg.active_module_list
    caller_pc,          \* the thread that calls start(): "idle", or "append" inside start()
    thread_pc,          \* the calculation thread: "none", or the line it is about to run
    on_track,           \* what state() returns
    checked,            \* locals of __calculation
    update_interval,
    relative_index,
    class_pos_list,
    stand_idx_list,
    finished,           \* history: the results of the tick computations that returned
    ticks,              \* history: the number of tick computations run
    closing,            \* the number of threads between lines 105 and 106 of __calculation
    wheels_pc,          \* module_wheels update_data: "wait", "body" or "closed"
    event_set,          \* DataModule._event
    state_active,       \* DataModule.state.active
    reset,              \* locals of update_data
    wheels_interval,
    radius_front,
    radius_rear,
    vehicle_id,         \* api.read.check.vehicle_id()
    mcfg,               \* the module's configuration: last vehicle and wheel radii
    saved_mcfg,         \* the module's configuration as cfg.save() last wrote it
    tick_state,         \* history: what the last loop body read from state.active
    now,                \* time.perf_counter(), in halves of a second
    timer_last,         \* _auto_load_preset_timer._last
    app_loaded,         \* cfg.app_loaded
    sim_name,           \* api.read.check.sim_name(), "" with no simulator running
    last_detected_sim,  \* cfg.last_detected_sim, "None" for None
    primary_preset,     \* cfg.get_primary_preset_name, by simulator name
    last_setting,       \* cfg.filename.last_setting
    filename_setting,   \* cfg.filename.setting
    run_reloads         \* history: the reload signals emitted since sim_name last changed

distVars == <<circle_length, plr_dist, opt_dist, rel_dist>>
snapVars == <<mLapDist, mSession, mNumVehicles, mVehicles, players_scor_index, setting_user>>
outVars == <<relative, vehicle_classes, unique_veh_class>>
standVars == <<window_call, standings>>
ctlVars == <<running, stopped, active_module_list, caller_pc>>
threadVars == <<thread_pc, checked, update_interval, relative_index, class_pos_list,
                stand_idx_list>>
wheelVars == <<wheels_pc, event_set, state_active, reset, wheels_interval, radius_front,
              radius_rear, vehicle_id, mcfg, saved_mcfg, tick_state>>
autoVars == <<now, timer_last, app_loaded, sim_name, last_detected_sim, primary_preset,
             last_setting, filename_setting, run_reloads>>
otherVars == <<closing, wheelVars, autoVars>>
loopVars == <<ctlVars, threadVars, on_track, finished, ticks, otherVars>>
vars == <<pc, distVars, snapVars, outVars, standVars, loopVars>>

----------------------------------------------------------------------------
(* Bounds of the model *)

MaxTrack == 6      \* circular_relative_distance: track lengths -NegTrack .. MaxTrack
NegTrack == 2
MaxDist == 5       \* circular_relative_distance: lap distances 0 .. MaxDist
SmallField == 3    \* relative list: fields up to this size take every placement on the track
FreeTrack == 4     \* relative list: track length of those fields
MaxField == 8      \* relative list: largest field
GridTrack == 10    \* relative list: track length of the fields larger than SmallField
MaxStride == 3     \* relative list: largest spacing between consecutive cars of such a field
MaxExtra == 1      \* relative list: additional_players_front / _behind in -1 .. MaxExtra
SmallClassField == 3  \* class grouping: fields up to this size take every order of places
ClassField == 4    \* class grouping: largest field
MaxClass == 2      \* class grouping: classes 1 .. MaxClass in the small fields
MaxLap == 1        \* class grouping: best lap times 0 .. MaxLap in the small fields
MaxTotal == 8      \* standings window: vehicles of the field or class, 1 .. MaxTotal
MaxLimitOption == 7  \* standings window: max_vehicles_* options 0 .. MaxLimitOption
SmallStandField == 3   \* standings list: vehicles of the freely drawn fields
MaxStandField == 6     \* standings list: vehicles of the laid-out fields
TickField == 3         \* tick: vehicles of the snapshot
MaxRadius == 2         \* wheels: values of a measured wheel radius
MaxNow == 6            \* overlay state: the clock, in halves of a second
MaxClosing == 2        \* loop: threads that have their last log line to write
MaxTicks == 2          \* tick: computations run on one snapshot

----------------------------------------------------------------------------
(* Python values *)

\* None; no operation of the module returns an empty list
None == << >>

Abs(x) == IF x < 0 THEN -x ELSE x
Min(a, b) == IF a < b THEN a ELSE b
Max(a, b) == IF a > b THEN a ELSE b

----------------------------------------------------------------------------
(* calculation.py *)

\* abs(rel_dist) > circle_length * 0.5, on integers
exceeds_half_whole(rel, length) == Abs(rel) > length
exceeds_half(rel, length) == 2 * Abs(rel) > length

\* the branch of an opponent ahead of the player left out
circular_relative_distance_onesided(length, plr, opt) ==
    LET rel == opt - plr IN
    IF exceeds_half(rel, length)
    THEN IF opt > plr THEN rel - length ELSE rel
    ELSE rel

circular_relative_distance(length, plr, opt) ==
    LET rel == opt - plr IN
    IF exceeds_half(rel, length)
    THEN IF opt > plr THEN rel - length
         ELSE IF opt < plr THEN rel + length
         ELSE rel
    ELSE rel

----------------------------------------------------------------------------
(* Python lists and sorted() *)

\* list[i] with Python's 0-based index, negative indices counting from the end
InRange(list, i) == -Len(list) <= i /\ i < Len(list)
PyGet(list, i) == IF i >= 0 THEN list[i + 1] ELSE list[Len(list) + i + 1]

\* list.index(x): 0-based position of the first occurrence
PyIndexOf(list, x) == (CHOOSE i \in 1..Len(list) :
                          list[i] = x /\ \A j \in 1..(i - 1) : list[j] # x) - 1

Contains(list, x) == \E i \in 1..Len(list) : list[i] = x
Reverse(list) == [i \in 1..Len(list) |-> list[Len(list) + 1 - i]]
Repeat(x, n) == [i \in 1..n |-> x]

\* Python's order on tuples of numbers
RECURSIVE TupleLess(_, _)
TupleLess(a, b) ==
    IF a = << >> THEN b # << >>
    ELSE IF b = << >> THEN FALSE
    ELSE IF Head(a) # Head(b) THEN Head(a) < Head(b)
    ELSE TupleLess(Tail(a), Tail(b))

\* insert x after the elements that are not greater than it
RECURSIVE Insert(_, _)
Insert(x, list) ==
    IF list = << >> THEN <<x>>
    ELSE IF TupleLess(x, Head(list)) THEN <<x>> \o list
    ELSE <<Head(list)>> \o Insert(x, Tail(list))

\* sorted(list) for a list of tuples
RECURSIVE Sorted(_)
Sorted(list) ==
    IF list = << >> THEN << >>
    ELSE Insert(list[Len(list)], Sorted(SubSeq(list, 1, Len(list) - 1)))

\* sorted(list, reverse=True)
SortedReverse(list) == Reverse(Sorted(list))

\* sorted(list, key=...): stable, the position in the list breaks ties of the key;
\* keys[i] is the key of list[i], a tuple
SortedByKey(list, keys) ==
    LET tagged == [i \in 1..Len(list) |-> keys[i] \o <<i>>]
        order == Sorted(tagged)
    IN [i \in 1..Len(list) |-> list[order[i][Len(order[i])]]]

----------------------------------------------------------------------------
(* module_relative.py: relative list *)

veh_total_unclamped == mNumVehicles
\* max(chknm(info.LastTele.mNumVehicles), 1)
veh_total == Max(mNumVehicles, 1)

\* info.syncedVehicleScoring(): the scoring data of the player's vehicle
syncedVehicleScoring == mVehicles[players_scor_index + 1]

show_vehicles(race_check, ingarage) ==
    IF race_check
    THEN IF ~ingarage THEN TRUE ELSE FALSE
    ELSE TRUE

race_check == mSession > 9 /\ ~setting_user.show_vehicle_in_garage_for_race

\* the (relative distance, index) pairs __relative_data yields, in index order
RECURSIVE relative_data(_)
relative_data(total) ==
    IF total = 0 THEN << >>
    ELSE LET index == total - 1
             veh == mVehicles[index + 1]
         IN relative_data(total - 1) \o
            (IF show_vehicles(race_check, veh.mInGarageStall)
             THEN << <<circular_relative_distance(
                          mLapDist, syncedVehicleScoring.mLapDist, veh.mLapDist),
                        index>> >>
             ELSE << >>)

\* min(max(int(option), 0), 60)
clamp_extra(option) == Min(Max(option, 0), 60)
add_front == clamp_extra(setting_user.additional_players_front)
add_behind == clamp_extra(setting_user.additional_players_behind)
max_veh == 7 + add_front + add_behind

\* sorted by relative distance, most ahead first; the vehicle indices of the pairs
sorted_veh_list_ascending(veh_list) ==
    LET re_veh_list == Sorted(veh_list)
    IN [i \in 1..Len(re_veh_list) |-> re_veh_list[i][2]]
sorted_veh_list(veh_list) ==
    LET re_veh_list == SortedReverse(veh_list)
    IN [i \in 1..Len(re_veh_list) |-> re_veh_list[i][2]]

\* padded with -1 up to max_veh entries, then doubled
padded_veh_list_unpadded(veh_list) == sorted_veh_list(veh_list)
padded_veh_list(veh_list) ==
    LET sorted == sorted_veh_list(veh_list)
    IN IF Len(sorted) < max_veh
       THEN sorted \o Repeat(-1, max_veh - Len(sorted))
       ELSE sorted
doubled_veh_list(veh_list) == padded_veh_list(veh_list) \o padded_veh_list(veh_list)

plr_num(doubled, plr_index) ==
    IF Contains(doubled, plr_index) THEN PyIndexOf(doubled, plr_index) ELSE 0

\* range(plr_num - 3 - add_front, plr_num + 4 + add_behind)
range_start_shifted(num) == num - 4 - add_front
range_start(num) == num - 3 - add_front
range_stop_short(num) == num + 3 + add_behind
range_stop(num) == num + 4 + add_behind

\* list(zip(*re_veh_list))[1] raises IndexError on an empty list
relative_raises(veh_list, plr_index) ==
    \/ veh_list = << >>
    \/ LET doubled == doubled_veh_list(veh_list)
           num == plr_num(doubled, plr_index)
       IN \E index \in range_start(num)..(range_stop(num) - 1) : ~InRange(doubled, index)

relative_index_list(veh_list, plr_index) ==
    LET doubled == doubled_veh_list(veh_list)
        num == plr_num(doubled, plr_index)
        start == range_start(num)
    IN [k \in 1..Max(range_stop(num) - start, 0) |-> PyGet(doubled, start + k - 1)]

----------------------------------------------------------------------------
(* module_relative.py: class positions *)

\* bestlaptime if bestlaptime > 0 else 99999
normalized_laptime(bestlaptime) == IF bestlaptime > 0 THEN bestlaptime ELSE 99999

\* the tuples __class_data yields first: (class, overall position, index, best lap time)
class_data(total) ==
    [k \in 1..total |->
        <<mVehicles[k].mVehicleClass, mVehicles[k].mPlace, k - 1,
          normalized_laptime(mVehicles[k].mBestLapTime)>>]

\* set(raw_veh_class[1])
class_set(total) == {mVehicles[k].mVehicleClass : k \in 1..total}

\* list(set(...)): a set's iteration order is not specified
ListsOfSet(set) ==
    {list \in [1..Cardinality(set) -> set] : \A x \in set : Contains(list, x)}

\* sorted by overall position alone
sorted_veh_class_by_place(data) ==
    SortedByKey(data, [i \in 1..Len(data) |-> <<data[i][2]>>])
\* sorted(raw_veh_class[0]): by class, then overall position
sorted_veh_class(data) == Sorted(data)

\* sorted(sorted_veh_class, key=lambda laptime:laptime[3])[0][3]
session_best_laptime(data) ==
    SortedByKey(data, [i \in 1..Len(data) |-> <<data[i][4]>>])[1][4]

\* if position_counter == 1: class_best_laptime = veh_sort[3]
class_best_fastest(counter, laptime, best) ==
    IF counter = 1 \/ laptime < best THEN laptime ELSE best
class_best_update(counter, laptime, best) ==
    IF counter = 1 THEN laptime ELSE best

\* the body of the inner loop of __sort_class_data, on the generator's locals
class_step(st, veh_sort, veh_uniq) ==
    IF veh_sort[1] = veh_uniq
    THEN LET counter == IF st.initial_class = veh_uniq
                        THEN st.position_counter + 1
                        ELSE 1
             best == class_best_update(counter, veh_sort[4], st.class_best_laptime)
         IN [st EXCEPT !.initial_class = veh_uniq,
                       !.position_counter = counter,
                       !.class_best_laptime = best,
                       !.yielded = Append(@, <<veh_sort[3], counter, veh_sort[1],
                                               st.session_best_laptime, best>>)]
    ELSE st

\* for veh_uniq in unique_veh_class, from the j-th class on
RECURSIVE class_inner(_, _, _, _)
class_inner(st, veh_sort, uniq, j) ==
    IF j > Len(uniq) THEN st
    ELSE class_inner(class_step(st, veh_sort, uniq[j]), veh_sort, uniq, j + 1)

\* for veh_sort in sorted_veh_class, from the k-th vehicle on
RECURSIVE class_outer(_, _, _, _)
class_outer(st, sorted, uniq, k) ==
    IF k > Len(sorted) THEN st
    ELSE class_outer(class_inner(st, sorted[k], uniq, 1), sorted, uniq, k + 1)

sort_class_data_counting_from_one(sorted, uniq) ==
    class_outer([session_best_laptime |-> session_best_laptime(sorted),
                 class_best_laptime |-> 99999,
                 initial_class |-> uniq[1],
                 position_counter |-> 1,
                 yielded |-> << >>],
                sorted, uniq, 1).yielded
sort_class_data(sorted, uniq) ==
    class_outer([session_best_laptime |-> session_best_laptime(sorted),
                 class_best_laptime |-> 99999,
                 initial_class |-> uniq[1],
                 position_counter |-> 0,
                 yielded |-> << >>],
                sorted, uniq, 1).yielded

\* the first value __class_position_list returns, given the order of the class list
class_position_list_grouped(total, uniq) ==
    sort_class_data(sorted_veh_class(class_data(total)), uniq)
class_position_list(total, uniq) ==
    Sorted(sort_class_data(sorted_veh_class(class_data(total)), uniq))

----------------------------------------------------------------------------
(* module_relative.py: standings window *)

\* min(max(int(min_top_vehicles), 1), 5)
clamp_top(option) == Min(Max(option, 1), 5)

\* max(int(max_vehicles_combined_mode), veh_top + 2)
combined_limit(option, top) == Max(option, top + 2)

\* the limit of a class group: of the player's class, of another class
class_limit_of_player(player_option, others_option, top, has_player) ==
    Max(player_option, top + 2)
class_limit(player_option, others_option, top, has_player) ==
    IF has_player THEN Max(player_option, top + 2) ELSE Max(others_option, top)

\* list[:n]
Prefix(list, n) == SubSeq(list, 1, Min(Max(n, 0), Len(list)))

\* sorted(list) for a list of numbers
SortedNumbers(list) ==
    LET order == Sorted([i \in 1..Len(list) |-> <<list[i]>>])
    IN [i \in 1..Len(list) |-> order[i][1]]

\* if plr_place: yield plr_place; counter += 1
nearby_start_without_player(plr_place) == [yielded |-> << >>, counter |-> 0, stop |-> FALSE]
nearby_start(plr_place) ==
    IF plr_place # 0
    THEN [yielded |-> <<plr_place>>, counter |-> 1, stop |-> FALSE]
    ELSE [yielded |-> << >>, counter |-> 0, stop |-> FALSE]

\* one of the two if-blocks of the loop body: yield the place when the bound allows
nearby_yield_late(st, allowed, place, max_range) ==
    IF st.stop \/ ~allowed THEN st
    ELSE [yielded |-> Append(st.yielded, place),
          counter |-> st.counter + 1,
          stop |-> st.counter + 1 > max_range]
nearby_yield(st, allowed, place, max_range) ==
    IF st.stop \/ ~allowed THEN st
    ELSE [yielded |-> Append(st.yielded, place),
          counter |-> st.counter + 1,
          stop |-> st.counter + 1 >= max_range]

\* for veh in range(max_range), from veh on
RECURSIVE nearby_loop(_, _, _, _, _, _)
nearby_loop(st, veh, top, total, plr_place, max_range) ==
    IF veh >= max_range \/ st.stop THEN st
    ELSE LET front == plr_place - 1 - veh
             rear == plr_place + 1 + veh
             after_front == nearby_yield(st, top < front, front, max_range)
             after_rear == nearby_yield(after_front, rear < total, rear, max_range)
         IN nearby_loop(after_rear, veh + 1, top, total, plr_place, max_range)

relative_nearby_place_index_to_last(top, total, plr_place, limit) ==
    nearby_loop(nearby_start(plr_place), 0, top, total + 1, plr_place, limit - top).yielded
relative_nearby_place_index(top, total, plr_place, limit) ==
    nearby_loop(nearby_start(plr_place), 0, top, total, plr_place, limit - top).yielded

\* the indices of the pairs whose place is in the reference list, then the gap -1
place_index_from_reference_no_gap(ref_place_list, place_index_list) ==
    LET matched == SelectSeq(place_index_list, LAMBDA veh : Contains(ref_place_list, veh[1]))
    IN [k \in 1..Len(matched) |-> matched[k][2]]
place_index_from_reference(ref_place_list, place_index_list) ==
    LET matched == SelectSeq(place_index_list, LAMBDA veh : Contains(ref_place_list, veh[1]))
    IN [k \in 1..Len(matched) |-> matched[k][2]] \o <<-1>>

ref_place_list_top_only(top, total, limit, plr_place) ==
    LET veh_list_full == [k \in 1..total |-> k] IN
    IF plr_place <= top \/ total <= limit
    THEN Prefix(veh_list_full, top)
    ELSE SortedNumbers(Prefix(veh_list_full, top) \o
                       relative_nearby_place_index(top, total, plr_place, limit))
ref_place_list_nearby_only(top, total, limit, plr_place) ==
    LET veh_list_full == [k \in 1..total |-> k] IN
    IF plr_place <= top \/ total <= limit
    THEN Prefix(veh_list_full, limit)
    ELSE SortedNumbers(relative_nearby_place_index(top, total, plr_place, limit))
ref_place_list(top, total, limit, plr_place) ==
    LET veh_list_full == [k \in 1..total |-> k] IN
    IF plr_place <= top \/ total <= limit
    THEN Prefix(veh_list_full, limit)
    ELSE SortedNumbers(Prefix(veh_list_full, top) \o
                       relative_nearby_place_index(top, total, plr_place, limit))

calc_standings_index(top, total, limit, plr_place, place_index_list) ==
    place_index_from_reference(ref_place_list(top, total, limit, plr_place), place_index_list)

----------------------------------------------------------------------------
(* module_relative.py: standings list *)

\* list[a:b] for 0 <= a <= b <= len(list)
PySlice(list, a, b) == SubSeq(list, a + 1, b)

\* the key of an entry: class name, class best laptime, class position
sort_class(class_list) == <<class_list[3], class_list[5], class_list[2]>>

\* sorted(class_pos_list, key=sort_class)
sorted_class_pos_list(entries) ==
    SortedByKey(entries, [i \in 1..Len(entries) |-> sort_class(entries[i])])

\* the loop body of split_class_list, on the generator's locals
split_step(st, input_list, vehicle) ==
    IF vehicle[3] = st.class_name
    THEN [st EXCEPT !.index_end = @ + 1]
    ELSE [class_name |-> vehicle[3],
          yielded |-> Append(st.yielded, PySlice(input_list, st.index_start, st.index_end)),
          index_start |-> st.index_end,
          index_end |-> st.index_end + 1]

\* for vehicle in input_list, from the k-th entry on
RECURSIVE split_loop(_, _, _)
split_loop(st, input_list, k) ==
    IF k > Len(input_list) THEN st
    ELSE split_loop(split_step(st, input_list, input_list[k]), input_list, k + 1)

split_class_list(input_list) ==
    LET st == split_loop([class_name |-> input_list[1][3], index_start |-> 0,
                          index_end |-> 0, yielded |-> << >>], input_list, 1)
    IN Append(st.yielded, PySlice(input_list, st.index_start, st.index_end))

\* the class groups in the order of the split
class_collection_unsorted(groups) == groups
\* sorted(..., key=lambda laptime:laptime[0][4]): by the class best laptime of the groups
class_collection(groups) ==
    SortedByKey(groups, [i \in 1..Len(groups) |-> <<groups[i][1][5]>>])

\* the window of one class group
class_window(top, plr_index, class_list) ==
    LET indices == [k \in 1..Len(class_list) |-> class_list[k][1]]
        positions == [k \in 1..Len(class_list) |-> class_list[k][2]]
        total == positions[Len(positions)]
        has_player == Contains(indices, plr_index)
        limit == class_limit(setting_user.max_vehicles_per_split_player,
                             setting_user.max_vehicles_per_split_others, top, has_player)
        plr_place == IF has_player THEN positions[PyIndexOf(indices, plr_index) + 1] ELSE 0
        place_index_list == [k \in 1..Len(class_list) |-> <<positions[k], indices[k]>>]
    IN calc_standings_index(top, total, limit, plr_place, place_index_list)

\* chain(*...): the windows of the groups from the g-th on, one after the other
RECURSIVE class_standings_index(_, _, _, _)
class_standings_index(top, plr_index, collection, g) ==
    IF g > Len(collection) THEN << >>
    ELSE class_window(top, plr_index, collection[g]) \o
         class_standings_index(top, plr_index, collection, g + 1)

\* sorted(list(self.__place_n_index(veh_total)))
place_n_index_by_index(total) == [k \in 1..total |-> <<mVehicles[k].mPlace, k - 1>>]
place_n_index(total) == Sorted([k \in 1..total |-> <<mVehicles[k].mPlace, k - 1>>])

\* the condition of the class-split branch
split_mode_flag_only(uniq) == setting_user.enable_multi_class_split_mode
split_mode(uniq) == setting_user.enable_multi_class_split_mode /\ Len(uniq) > 1

standings_index_list(total, entries, uniq) ==
    LET top == clamp_top(setting_user.min_top_vehicles)
        limit == combined_limit(setting_user.max_vehicles_combined_mode, top)
    IN IF split_mode(uniq)
       THEN class_standings_index(
                top, players_scor_index,
                class_collection(split_class_list(sorted_class_pos_list(entries))), 1)
       ELSE calc_standings_index(top, total, limit, syncedVehicleScoring.mPlace,
                                 place_n_index(total))

----------------------------------------------------------------------------
(* Values the variables hold while a specification does not use them *)

DefaultVehicle(index) ==
    [mLapDist |-> 0, mInGarageStall |-> FALSE, mVehicleClass |-> 1,
     mPlace |-> index + 1, mBestLapTime |-> 0]

DefaultSetting ==
    [additional_players_front |-> 0, additional_players_behind |-> 0,
     show_vehicle_in_garage_for_race |-> FALSE,
     min_top_vehicles |-> 3, max_vehicles_combined_mode |-> 7,
     max_vehicles_per_split_player |-> 7, max_vehicles_per_split_others |-> 3,
     enable_multi_class_split_mode |-> FALSE]

NoWindowCall ==
    [veh_top |-> 1, veh_total |-> 1, veh_limit |-> 3, plr_place |-> 1,
     place_index_list |-> << <<1, 0>> >>]

NoDistance ==
    /\ circle_length = 0
    /\ plr_dist = 0
    /\ opt_dist = 0
    /\ rel_dist = 0

NoSnapshot ==
    /\ mLapDist = 0
    /\ mSession = 0
    /\ mNumVehicles = 0
    /\ mVehicles = <<DefaultVehicle(0)>>
    /\ players_scor_index = 0
    /\ setting_user = DefaultSetting

\* Realtime.set_defaults
set_defaults ==
    /\ relative = None
    /\ vehicle_classes = None
    /\ unique_veh_class = None
    /\ standings = None

\* the module after __init__, and the locals of a thread that has not run
NoLoop ==
    /\ stopped = TRUE
    /\ running = FALSE
    /\ active_module_list = << >>
    /\ caller_pc = "idle"
    /\ thread_pc = "none"
    /\ on_track = FALSE
    /\ checked = FALSE
    /\ update_interval = "idle"
    /\ relative_index = None
    /\ class_pos_list = None
    /\ stand_idx_list = None
    /\ finished = {}
    /\ ticks = 0
    /\ closing = 0

\* module_wheels before update_data runs
NoWheels ==
    /\ wheels_pc = "closed"
    /\ event_set = FALSE
    /\ state_active = FALSE
    /\ reset = FALSE
    /\ wheels_interval = "active"
    /\ radius_front = 0
    /\ radius_rear = 0
    /\ vehicle_id = 1
    /\ mcfg = [last_vehicle_info |-> 0, last_wheel_radius_front |-> 0,
               last_wheel_radius_rear |-> 0]
    /\ saved_mcfg = mcfg
    /\ tick_state = "none"

\* OverlayState after __init__, the application not yet loaded, no simulator running
NoOverlay ==
    /\ now = 0
    /\ timer_last = 0
    /\ app_loaded = FALSE
    /\ sim_name = ""
    /\ last_detected_sim = "None"
    /\ primary_preset = [name \in {"sim1", "sim2"} |-> ""]
    /\ last_setting = "default"
    /\ filename_setting = "default"
    /\ run_reloads = 0

----------------------------------------------------------------------------
(* circular_relative_distance applied to drawn arguments *)

TrackLengths == (-NegTrack..MaxTrack) \cup {1000}
LapDists == (0..MaxDist) \cup {10, 990}

InitDist ==
    /\ pc = "input"
    /\ NoLoop
    /\ NoWheels
    /\ NoOverlay
    /\ circle_length \in TrackLengths
    /\ plr_dist \in LapDists
    /\ opt_dist \in LapDists
    /\ rel_dist = 0
    /\ NoSnapshot
    /\ set_defaults
    /\ window_call = NoWindowCall

CallDistance ==
    /\ pc = "input"
    /\ rel_dist' = circular_relative_distance(circle_length, plr_dist, opt_dist)
    /\ pc' = "done"
    /\ UNCHANGED <<circle_length, plr_dist, opt_dist, snapVars, outVars, standVars, loopVars>>

NextDist == CallDistance
SpecDist == InitDist /\ [][NextDist]_vars

\* the arguments lie on a track of positive length
OnTrack ==
    /\ circle_length > 0
    /\ plr_dist \in 0..(circle_length - 1)
    /\ opt_dist \in 0..(circle_length - 1)

\* C5: on a track of length L > 0, with p and o in [0, L), the distance of o to p is
\* the negation of the distance of p to o.
C5_Symmetry ==
    (pc = "done" /\ OnTrack) =>
        rel_dist = -circular_relative_distance(circle_length, opt_dist, plr_dist)

C5_Witness ==
    /\ pc = "done"
    /\ OnTrack
    /\ rel_dist = -2
    /\ opt_dist - plr_dist = 4

\* C6: on a track of length L > 0, with p and o in [0, L), the result is congruent to
\* o - p modulo L and its magnitude is at most L / 2; L = 1000, p = 10, o = 990
\* gives -20.
C6_ShorterArc ==
    (pc = "done" /\ OnTrack) =>
        /\ (rel_dist - (opt_dist - plr_dist)) % circle_length = 0
        /\ 2 * rel_dist <= circle_length
        /\ 2 * rel_dist >= -circle_length
        /\ (circle_length = 1000 /\ plr_dist = 10 /\ opt_dist = 990) => rel_dist = -20

C6_Witness ==
    /\ pc = "done"
    /\ circle_length = 1000
    /\ plr_dist = 10
    /\ opt_dist = 990
    /\ rel_dist = -20

\* C7: with a track length of zero or less no correction is applied, the result is
\* the straight difference o - p.
C7_NoCorrection ==
    (pc = "done" /\ circle_length <= 0) => rel_dist = opt_dist - plr_dist

----------------------------------------------------------------------------
(* The relative list of one tick, on drawn snapshots *)

ExtraOptions == (-1..MaxExtra) \cup {61}

RelVehicle(index, dist, garage) ==
    [DefaultVehicle(index) EXCEPT !.mLapDist = dist, !.mInGarageStall = garage]

\* small fields: every placement on the track, every set of cars in the garage
InitFreeField ==
    \E n \in 1..SmallField :
    \E dist \in [1..n -> 0..(FreeTrack - 1)], garage \in [1..n -> BOOLEAN] :
        /\ mLapDist = FreeTrack
        /\ mNumVehicles = n
        /\ mVehicles = [i \in 1..n |-> RelVehicle(i - 1, dist[i], garage[i])]
        /\ players_scor_index \in 0..(n - 1)
        /\ mSession \in {1, 10}    \* a practice session, a race
        /\ \E show \in BOOLEAN :
              setting_user = [DefaultSetting EXCEPT !.show_vehicle_in_garage_for_race = show]

\* larger fields: cars spaced evenly from a first car, nobody in the garage
InitGridField ==
    \E n \in 1..MaxField, first \in 0..(GridTrack - 1), stride \in 0..MaxStride :
        /\ mLapDist = GridTrack
        /\ mNumVehicles = n
        /\ mVehicles = [i \in 1..n |->
                           RelVehicle(i - 1, (first + (i - 1) * stride) % GridTrack, FALSE)]
        /\ players_scor_index \in 0..(n - 1)
        /\ mSession = 1
        /\ \E front \in ExtraOptions, behind \in ExtraOptions :
              setting_user = [DefaultSetting EXCEPT !.additional_players_front = front,
                                                    !.additional_players_behind = behind]

InitRel ==
    /\ pc = "input"
    /\ NoLoop
    /\ NoWheels
    /\ NoOverlay
    /\ NoDistance
    /\ InitFreeField \/ InitGridField
    /\ set_defaults
    /\ window_call = NoWindowCall

\* lines 82-84 and 93 of __calculation
RelativeTick ==
    /\ pc = "input"
    /\ LET plr_index == players_scor_index
           veh_list == relative_data(veh_total)
       IN IF relative_raises(veh_list, plr_index)
          THEN /\ pc' = "raised"
               /\ relative' = relative
          ELSE /\ pc' = "done"
               /\ relative' = relative_index_list(veh_list, plr_index)
    /\ UNCHANGED <<distVars, snapVars, vehicle_classes, unique_veh_class, standVars, loopVars>>

NextRel == RelativeTick
SpecRel == InitRel /\ [][NextRel]_vars

----------------------------------------------------------------------------
(* Properties of the relative list *)

\* what the claims say of the snapshot, stated without the builder's operators
Clamped(option) == IF option < 0 THEN 0 ELSE IF option > 60 THEN 60 ELSE option
extraFront == Clamped(setting_user.additional_players_front)
extraBehind == Clamped(setting_user.additional_players_behind)
WindowSize == 7 + extraFront + extraBehind

InRace == mSession > 9 /\ ~setting_user.show_vehicle_in_garage_for_race
EligibleIndices ==
    {i \in 0..(veh_total - 1) : ~(InRace /\ mVehicles[i + 1].mInGarageStall)}

\* signed shorter-arc distance of vehicle i to the player
DistanceOf(i) ==
    LET d == mVehicles[i + 1].mLapDist - mVehicles[players_scor_index + 1].mLapDist
    IN IF 2 * d > mLapDist THEN d - mLapDist
       ELSE IF 2 * d < -mLapDist THEN d + mLapDist
       ELSE d

\* i is listed before j in the order "most ahead first", ties by larger index
Before(i, j) ==
    \/ DistanceOf(i) > DistanceOf(j)
    \/ DistanceOf(i) = DistanceOf(j) /\ i > j
MostAhead == CHOOSE i \in EligibleIndices : \A j \in EligibleIndices \ {i} : Before(i, j)

Count(list, x) == Cardinality({k \in 1..Len(list) : list[k] = x})
RealEntries(list) == SelectSeq(list, LAMBDA x : x # -1)
Ascents(list) ==
    {k \in 1..(Len(list) - 1) : DistanceOf(list[k]) < DistanceOf(list[k + 1])}

\* C1: with a non-empty list of eligible vehicles the relative list builder returns,
\* and its list has exactly 7 + extraFront + extraBehind entries.
C1_RelativeLength ==
    (pc # "input" /\ EligibleIndices # {}) =>
        (pc = "done" /\ Len(relative) = WindowSize)

C1_Witness ==
    /\ pc = "done"
    /\ setting_user.additional_players_front = 61
    /\ setting_user.additional_players_behind = -1
    /\ Len(relative) = 67

C3_NoDuplicates ==
    pc = "done" =>
        /\ \A i \in 0..(veh_total - 1) : Count(relative, i) <= 1
        /\ Cardinality(EligibleIndices) <= WindowSize =>
              /\ \A i \in EligibleIndices : Count(relative, i) = 1
              /\ Count(relative, -1) = WindowSize - Cardinality(EligibleIndices)

C3_Witness ==
    /\ pc = "done"
    /\ Cardinality(EligibleIndices) > WindowSize
    /\ Count(relative, -1) = 0
    /\ players_scor_index = 0

\* C4 as stated: the real entries of the relative list are in non-increasing order
\* of relative distance, first slot to last.
C4_NonIncreasing ==
    pc = "done" => Ascents(RealEntries(relative)) = {}

\* C4 as amended: the real entries are in non-increasing order of relative distance
\* except at no more than one place, where the window wraps around the sorted list
\* from the most-behind eligible vehicle to the most-ahead one.
C4_NonIncreasingUpToWrap ==
    pc = "done" =>
        LET real == RealEntries(relative) IN
        /\ Cardinality(Ascents(real)) <= 1
        /\ \A k \in Ascents(real) :
              /\ \A i \in EligibleIndices : DistanceOf(real[k]) <= DistanceOf(i)
              /\ \A i \in EligibleIndices : DistanceOf(real[k + 1]) >= DistanceOf(i)

C4_Witness ==
    /\ pc = "done"
    /\ Cardinality(Ascents(RealEntries(relative))) = 1
    /\ Cardinality(EligibleIndices) > WindowSize

----------------------------------------------------------------------------
(* The class grouping of one tick, on drawn snapshots *)

ClassVehicle(index, class, place, laptime) ==
    [DefaultVehicle(index) EXCEPT !.mVehicleClass = class, !.mPlace = place,
                                  !.mBestLapTime = laptime]

PlaceOrders(n) == {f \in [1..n -> 1..n] : \A i, j \in 1..n : f[i] = f[j] => i = j}

\* the places of a field in index order or in reverse index order, rotated
RotatedOrders(n) ==
    {[i \in 1..n |-> ((i - 1 + k) % n) + 1] : k \in 0..(n - 1)} \cup
    {[i \in 1..n |-> n - ((i - 1 + k) % n)] : k \in 0..(n - 1)}

\* small fields: every class, every order of places, lap times set or not
InitSmallClassField ==
    \E n \in 1..SmallClassField :
    \E class \in [1..n -> 1..MaxClass], place \in PlaceOrders(n),
       laptime \in [1..n -> 0..MaxLap] :
        /\ mNumVehicles = n
        /\ mVehicles = [i \in 1..n |-> ClassVehicle(i - 1, class[i], place[i], laptime[i])]

\* larger fields: two classes, rotated orders of places, every car has set a lap time
InitTwoClassField ==
    \E n \in (SmallClassField + 1)..ClassField :
    \E class \in [1..n -> {1, 2}], place \in RotatedOrders(n),
       laptime \in [1..n -> {1, 2}] :
        /\ mNumVehicles = n
        /\ mVehicles = [i \in 1..n |-> ClassVehicle(i - 1, class[i], place[i], laptime[i])]

\* small fields whose overall positions are any values, tied or with places left out
InitTiedClassField ==
    \E n \in 1..SmallClassField :
    \E class \in [1..n -> 1..MaxClass], place \in [1..n -> 1..n] \ PlaceOrders(n) :
        /\ mNumVehicles = n
        /\ mVehicles = [i \in 1..n |-> ClassVehicle(i - 1, class[i], place[i], 1)]

InitClass ==
    /\ pc = "input"
    /\ NoLoop
    /\ NoWheels
    /\ NoOverlay
    /\ NoDistance
    /\ mLapDist = 0
    /\ mSession = 1
    /\ players_scor_index = 0
    /\ setting_user = DefaultSetting
    /\ InitSmallClassField \/ InitTwoClassField \/ InitTiedClassField
    /\ set_defaults
    /\ window_call = NoWindowCall

\* lines 87 and 92 of __calculation
ClassTick ==
    /\ pc = "input"
    /\ \E uniq \in ListsOfSet(class_set(veh_total)) :
          /\ unique_veh_class' = uniq
          /\ vehicle_classes' = class_position_list(veh_total, uniq)
    /\ pc' = "done"
    /\ UNCHANGED <<distVars, snapVars, relative, standVars, loopVars>>

NextClass == ClassTick
SpecClass == InitClass /\ [][NextClass]_vars

----------------------------------------------------------------------------
(* Properties of the class grouping *)

Slots == 0..(veh_total - 1)
ClassOf(i) == mVehicles[i + 1].mVehicleClass
PlaceOf(i) == mVehicles[i + 1].mPlace
LapOf(i) == IF mVehicles[i + 1].mBestLapTime <= 0 THEN 99999 ELSE mVehicles[i + 1].mBestLapTime
ClassMates(i) == {j \in Slots : ClassOf(j) = ClassOf(i)}
ClassLeader(i) == CHOOSE j \in ClassMates(i) : \A m \in ClassMates(i) : PlaceOf(j) <= PlaceOf(m)
PlacesArePermutation == {PlaceOf(i) : i \in Slots} = 1..veh_total

\* C8: with overall positions a permutation of 1..N every vehicle has an entry, and its
\* class position is 1 plus the number of vehicles of its class with a smaller overall
\* position, however the classes interleave in the overall order.
C8_ClassPosition ==
    (pc = "done" /\ PlacesArePermutation) =>
        /\ \A i \in Slots : \E k \in 1..Len(vehicle_classes) : vehicle_classes[k][1] = i
        /\ \A k \in 1..Len(vehicle_classes) :
              LET i == vehicle_classes[k][1] IN
              /\ vehicle_classes[k][3] = ClassOf(i)
              /\ vehicle_classes[k][2] =
                    1 + Cardinality({j \in ClassMates(i) : PlaceOf(j) < PlaceOf(i)})

\* the example of the claim: classes A, B, A, B at places 1, 2, 3, 4
C8_Witness ==
    /\ pc = "done"
    /\ veh_total = 4
    /\ \A i \in Slots : PlaceOf(i) = i + 1 /\ ClassOf(i) = 1 + (i % 2)
    /\ [k \in 1..4 |-> vehicle_classes[k][2]] = <<1, 1, 2, 2>>

\* C9: every class entry of a tick carries the minimum of the normalized best lap
\* times of all vehicles as session best, and as class best the normalized best lap
\* time of the member of its class with the lowest overall position.
C9_BestLapTimes ==
    (pc = "done" /\ PlacesArePermutation) =>
        \A k \in 1..Len(vehicle_classes) :
            LET i == vehicle_classes[k][1] IN
            /\ \E j \in Slots : vehicle_classes[k][4] = LapOf(j)
            /\ \A j \in Slots : vehicle_classes[k][4] <= LapOf(j)
            /\ vehicle_classes[k][5] = LapOf(ClassLeader(i))

\* a class whose leader is slower than another of its members
C9_Witness ==
    /\ pc = "done"
    /\ \E k \in 1..Len(vehicle_classes) :
          LET i == vehicle_classes[k][1] IN
          /\ vehicle_classes[k][5] < 99999
          /\ \E j \in ClassMates(i) : LapOf(j) < vehicle_classes[k][5]
          /\ vehicle_classes[k][4] < vehicle_classes[k][5]

----------------------------------------------------------------------------
(* The standings window, on the arguments its two callers pass *)

TopOptions == 0..6
LimitOptions == 0..MaxLimitOption

\* the (place, index) pairs in ascending place order, as both callers build them
PlaceIndexLists(total) ==
    {[place \in 1..total |-> <<place, order[place] - 1>>] : order \in RotatedOrders(total)}

\* __standings_index_list, combined mode: the field, the player's overall place
InitCombinedCall ==
    \E top_option \in TopOptions, limit_option \in LimitOptions, total \in 1..MaxTotal :
        /\ setting_user = [DefaultSetting EXCEPT !.min_top_vehicles = top_option,
                                                 !.max_vehicles_combined_mode = limit_option]
        /\ \E place \in 1..total, pairs \in PlaceIndexLists(total) :
              window_call =
                [veh_top |-> clamp_top(top_option),
                 veh_total |-> total,
                 veh_limit |-> combined_limit(limit_option, clamp_top(top_option)),
                 plr_place |-> place,
                 place_index_list |-> pairs]

\* __class_standings_index: a class group, with the player at a class position or without
InitClassCall ==
    \E top_option \in TopOptions, limit_option \in LimitOptions, total \in 1..MaxTotal :
    \E place \in 0..total, pairs \in PlaceIndexLists(total) :
        /\ setting_user =
              IF place # 0
              THEN [DefaultSetting EXCEPT !.min_top_vehicles = top_option,
                                          !.max_vehicles_per_split_player = limit_option]
              ELSE [DefaultSetting EXCEPT !.min_top_vehicles = top_option,
                                          !.max_vehicles_per_split_others = limit_option]
        /\ window_call =
              [veh_top |-> clamp_top(top_option),
               veh_total |-> total,
               veh_limit |-> class_limit(setting_user.max_vehicles_per_split_player,
                                         setting_user.max_vehicles_per_split_others,
                                         clamp_top(top_option), place # 0),
               plr_place |-> place,
               place_index_list |-> pairs]

InitWindow ==
    /\ pc = "input"
    /\ NoLoop
    /\ NoWheels
    /\ NoOverlay
    /\ NoDistance
    /\ mLapDist = 0
    /\ mSession = 1
    /\ mNumVehicles = 0
    /\ mVehicles = <<DefaultVehicle(0)>>
    /\ players_scor_index = 0
    /\ InitCombinedCall \/ InitClassCall
    /\ relative = None
    /\ vehicle_classes = None
    /\ unique_veh_class = None
    /\ standings = None

CallStandingsWindow ==
    /\ pc = "input"
    /\ standings' = calc_standings_index(window_call.veh_top, window_call.veh_total,
                                         window_call.veh_limit, window_call.plr_place,
                                         window_call.place_index_list)
    /\ pc' = "done"
    /\ UNCHANGED <<distVars, snapVars, outVars, window_call, loopVars>>

NextWindow == CallStandingsWindow
SpecWindow == InitWindow /\ [][NextWindow]_vars

\* the index paired with a place
IndexAtPlace(place) ==
    window_call.place_index_list[
        CHOOSE k \in 1..Len(window_call.place_index_list) :
            window_call.place_index_list[k][1] = place][2]
HasPlace(place) ==
    \E k \in 1..Len(window_call.place_index_list) : window_call.place_index_list[k][1] = place

\* C10: in a call with playerPlace > topCount and totalCount > windowLimit whose pairs
\* hold the player's place, the player's vehicle index is in the returned window.
C10_PlayerInWindow ==
    (/\ pc = "done"
     /\ window_call.plr_place > window_call.veh_top
     /\ window_call.veh_total > window_call.veh_limit
     /\ HasPlace(window_call.plr_place)) =>
        Contains(standings, IndexAtPlace(window_call.plr_place))

\* the player last of a field larger than the window, two places or more behind it
C10_Witness ==
    /\ pc = "done"
    /\ window_call.plr_place = window_call.veh_total
    /\ window_call.veh_total > window_call.veh_limit + 1
    /\ window_call.veh_top > 1
    /\ Contains(standings, IndexAtPlace(window_call.plr_place))
    /\ ~Contains(standings, IndexAtPlace(window_call.veh_top + 1))

TopCount ==
    IF setting_user.min_top_vehicles < 1 THEN 1
    ELSE IF setting_user.min_top_vehicles > 5 THEN 5
    ELSE setting_user.min_top_vehicles

\* C12: the vehicles at places 1..min(topCount, totalCount) are in every standings
\* window, wherever the player is placed, topCount being min_top_vehicles within 1..5.
C12_LeadersShown ==
    pc = "done" =>
        \A place \in 1..Min(TopCount, window_call.veh_total) :
            Contains(standings, IndexAtPlace(place))

\* the player last of a large field: the top places are shown, the next one is not
C12_Witness ==
    /\ pc = "done"
    /\ TopCount > 1
    /\ window_call.veh_total > window_call.veh_limit
    /\ window_call.plr_place = window_call.veh_total
    /\ \A place \in 1..TopCount : Contains(standings, IndexAtPlace(place))
    /\ ~Contains(standings, IndexAtPlace(TopCount + 1))

----------------------------------------------------------------------------
(* The standings list of one tick, on drawn snapshots and options *)

\* one class, two or three classes taking turns, one or two cars of another class
ClassLayouts(n) ==
    {[i \in 1..n |-> ((i - 1) % c) + 1] : c \in 1..3} \cup
    {[i \in 1..n |-> IF i = n THEN 2 ELSE 1],
     [i \in 1..n |-> IF i = 1 THEN 3 ELSE IF i = n THEN 2 ELSE 1]}

\* small fields: every class, every order of places, lap times set or not
InitSmallStandField ==
    \E n \in 1..SmallStandField :
    \E class \in [1..n -> {1, 2}], place \in PlaceOrders(n), laptime \in [1..n -> {0, 1}] :
        /\ mNumVehicles = n
        /\ mVehicles = [i \in 1..n |-> ClassVehicle(i - 1, class[i], place[i], laptime[i])]
        /\ \E split \in BOOLEAN :
              setting_user = [DefaultSetting EXCEPT !.enable_multi_class_split_mode = split]

\* larger fields: laid-out classes, rotated orders of places, one lap time per class,
\* the limits at their floors or above them
InitGridStandField ==
    \E n \in (SmallStandField + 1)..MaxStandField :
    \E class \in ClassLayouts(n), place \in RotatedOrders(n), laptime \in [1..3 -> {1, 2}] :
        /\ mNumVehicles = n
        /\ mVehicles = [i \in 1..n |->
                           ClassVehicle(i - 1, class[i], place[i], laptime[class[i]])]
        /\ \E split \in BOOLEAN, top_option \in {0, 2}, wide \in BOOLEAN :
              setting_user =
                [DefaultSetting EXCEPT
                    !.enable_multi_class_split_mode = split,
                    !.min_top_vehicles = top_option,
                    !.max_vehicles_combined_mode = IF wide THEN 5 ELSE 0,
                    !.max_vehicles_per_split_player = IF wide THEN 4 ELSE 0,
                    !.max_vehicles_per_split_others = IF wide THEN 2 ELSE 0]

InitStand ==
    /\ pc = "input"
    /\ NoLoop
    /\ NoWheels
    /\ NoOverlay
    /\ NoDistance
    /\ mLapDist = 0
    /\ mSession = 1
    /\ InitSmallStandField \/ InitGridStandField
    /\ players_scor_index \in 0..(mNumVehicles - 1)
    /\ set_defaults
    /\ window_call = NoWindowCall

\* lines 87-89, 92 and 94 of __calculation
StandingsTick ==
    /\ pc = "input"
    /\ \E uniq \in ListsOfSet(class_set(veh_total)) :
          LET entries == class_position_list(veh_total, uniq) IN
          /\ unique_veh_class' = uniq
          /\ vehicle_classes' = entries
          /\ standings' = standings_index_list(veh_total, entries, uniq)
    /\ pc' = "done"
    /\ UNCHANGED <<distVars, snapVars, relative, window_call, loopVars>>

NextStand == StandingsTick
SpecStand == InitStand /\ [][NextStand]_vars

\* the classes of the snapshot and the mode the options and the snapshot ask for
Classes == {ClassOf(i) : i \in Slots}
SplitAsked == setting_user.enable_multi_class_split_mode /\ Cardinality(Classes) > 1

\* the positions of the gaps of the standings list, the group a position belongs to,
\* the class of the vehicle before the g-th gap
GroupEnds == SelectSeq([k \in 1..Len(standings) |-> k], LAMBDA k : standings[k] = -1)
GroupOf(k) == Cardinality({j \in 1..(k - 1) : standings[j] = -1}) + 1
GroupClass(g) == ClassOf(standings[GroupEnds[g] - 1])
VehiclePositions == {k \in 1..Len(standings) : standings[k] # -1}

\* C13: the standings list has one -1 per group and no other: one -1, at the end, in
\* combined mode; in class-split mode as many as there are classes, each directly after
\* the last vehicle of its class group, the last element of the list being -1.
C13_OneGapPerGroup ==
    pc = "done" =>
        /\ standings # << >>
        /\ standings[Len(standings)] = -1
        /\ Count(standings, -1) = IF SplitAsked THEN Cardinality(Classes) ELSE 1
        /\ \A k \in 1..Len(standings) :
              standings[k] = -1 => (k > 1 /\ standings[k - 1] # -1)
        /\ SplitAsked =>
              \A i, j \in VehiclePositions :
                  (ClassOf(standings[i]) = ClassOf(standings[j])) <=> (GroupOf(i) = GroupOf(j))

\* three classes in class-split mode, a gap inside the list after a group of two or more
C13_Witness ==
    /\ pc = "done"
    /\ SplitAsked
    /\ Count(standings, -1) = 3
    /\ \E k \in 3..(Len(standings) - 1) :
          /\ standings[k] = -1
          /\ ClassOf(standings[k - 1]) = ClassOf(standings[k - 2])
          /\ ClassOf(standings[k + 1]) # ClassOf(standings[k - 1])

\* max_vehicles_combined_mode, not below topCount + 2
CombinedLimit ==
    IF setting_user.max_vehicles_combined_mode < TopCount + 2
    THEN TopCount + 2
    ELSE setting_user.max_vehicles_combined_mode

\* the single list of the field windowed on the player's overall position
CombinedList ==
    calc_standings_index(TopCount, veh_total, CombinedLimit, PlaceOf(players_scor_index),
                         Sorted([k \in 1..veh_total |-> <<PlaceOf(k - 1), k - 1>>]))

\* C14: class-split mode is used if and only if enable_multi_class_split_mode is set and
\* the snapshot holds more than one class; otherwise the list is the single combined
\* list windowed on the player's overall position.
C14_SplitModeChoice ==
    pc = "done" =>
        IF SplitAsked
        THEN Count(standings, -1) = Cardinality(Classes) /\ standings # CombinedList
        ELSE standings = CombinedList

\* the option set on a field of one class, larger than the combined limit, which is
\* itself above the limit of the player's class group
C14_Witness ==
    /\ pc = "done"
    /\ setting_user.enable_multi_class_split_mode
    /\ Cardinality(Classes) = 1
    /\ setting_user.max_vehicles_per_split_player < CombinedLimit
    /\ veh_total > CombinedLimit
    /\ Len(standings) = CombinedLimit + 1

\* the class best lap time: the lap time of the best-placed vehicle of the class
ClassBest(c) ==
    LET mates == {i \in Slots : ClassOf(i) = c}
        leader == CHOOSE i \in mates :
                     \A m \in mates : PlaceOf(i) < PlaceOf(m) \/ (PlaceOf(i) = PlaceOf(m) /\ i <= m)
    IN LapOf(leader)

\* C15: in class-split mode every class forms exactly one contiguous group, the groups
\* are in non-decreasing order of class best lap time, and groups with the same class
\* best lap time are in ascending order of class id.
C15_GroupOrder ==
    (pc = "done" /\ SplitAsked) =>
        /\ Len(GroupEnds) = Cardinality(Classes)
        /\ {GroupClass(g) : g \in 1..Len(GroupEnds)} = Classes
        /\ \A k \in VehiclePositions : ClassOf(standings[k]) = GroupClass(GroupOf(k))
        /\ \A g \in 1..(Len(GroupEnds) - 1) :
              \/ ClassBest(GroupClass(g)) < ClassBest(GroupClass(g + 1))
              \/ /\ ClassBest(GroupClass(g)) = ClassBest(GroupClass(g + 1))
                 /\ GroupClass(g) < GroupClass(g + 1)

\* three classes: the second is the fastest, the first and the third have the same time
C15_Witness ==
    /\ pc = "done"
    /\ SplitAsked
    /\ Len(GroupEnds) = 3
    /\ GroupClass(1) = 2 /\ GroupClass(2) = 1 /\ GroupClass(3) = 3
    /\ ClassBest(2) < ClassBest(1)
    /\ ClassBest(1) = ClassBest(3)

----------------------------------------------------------------------------
(* One tick of __calculation with the vehicle on track, run again on the same snapshot *)

\* lines 82-84: the relative list of the tick, or the exception its builder raises
tick_raises == relative_raises(relative_data(veh_total), players_scor_index)
tick_relative == relative_index_list(relative_data(veh_total), players_scor_index)

\* lines 87-89: the class list and the standings list of the tick
tick_classes(uniq) == class_position_list(veh_total, uniq)
tick_standings(uniq) == standings_index_list(veh_total, tick_classes(uniq), uniq)

\* a vehicle count of 0: the data of slot 0 is whatever the snapshot holds there
InitEmptySnapshot ==
    \E dist \in {0, 1}, garage \in BOOLEAN, class \in {1, 2}, place \in {0, 1},
       laptime \in {0, 1} :
        /\ mLapDist = FreeTrack
        /\ mNumVehicles = 0
        /\ mVehicles = <<[mLapDist |-> dist, mInGarageStall |-> garage,
                          mVehicleClass |-> class, mPlace |-> place,
                          mBestLapTime |-> laptime]>>
        /\ players_scor_index = 0
        /\ mSession \in {1, 10}
        /\ \E show \in BOOLEAN, split \in BOOLEAN :
              setting_user = [DefaultSetting EXCEPT
                                 !.show_vehicle_in_garage_for_race = show,
                                 !.enable_multi_class_split_mode = split]

\* one class in place order: cars at either of two points of the track, in the garage
\* or not, a practice session or a race
InitTickRelative ==
    \E n \in 1..TickField :
    \E dist \in [1..n -> {0, 1}], garage \in [1..n -> BOOLEAN] :
        /\ mLapDist = FreeTrack
        /\ mNumVehicles = n
        /\ mVehicles = [i \in 1..n |-> RelVehicle(i - 1, dist[i], garage[i])]
        /\ players_scor_index \in 0..(n - 1)
        /\ mSession \in {1, 10}
        /\ \E show \in BOOLEAN :
              setting_user = [DefaultSetting EXCEPT !.show_vehicle_in_garage_for_race = show]

\* every class, rotated orders of places, lap times set or not, either standings mode
InitTickStandings ==
    \E n \in 1..TickField :
    \E class \in [1..n -> {1, 2}], place \in RotatedOrders(n), laptime \in [1..n -> {0, 1}] :
        /\ mLapDist = 0
        /\ mNumVehicles = n
        /\ mVehicles = [i \in 1..n |-> ClassVehicle(i - 1, class[i], place[i], laptime[i])]
        /\ players_scor_index \in 0..(n - 1)
        /\ mSession = 1
        /\ \E split \in BOOLEAN :
              setting_user = [DefaultSetting EXCEPT !.enable_multi_class_split_mode = split]

InitTick ==
    /\ pc = "input"
    /\ NoLoop
    /\ NoWheels
    /\ NoOverlay
    /\ NoDistance
    /\ InitTickRelative \/ InitTickStandings \/ InitEmptySnapshot
    /\ set_defaults
    /\ window_call = NoWindowCall

\* lines 79-94 of __calculation
Tick ==
    /\ pc \in {"input", "done"}
    /\ ticks < MaxTicks
    /\ ticks' = ticks + 1
    /\ IF tick_raises
       THEN /\ pc' = "raised"
            /\ UNCHANGED <<outVars, standings>>
       ELSE /\ pc' = "done"
            /\ \E uniq \in ListsOfSet(class_set(veh_total)) :
                  /\ unique_veh_class' = uniq
                  /\ vehicle_classes' = tick_classes(uniq)
                  /\ relative' = tick_relative
                  /\ standings' = tick_standings(uniq)
    /\ UNCHANGED <<distVars, snapVars, window_call, ctlVars, threadVars, on_track, finished,
                   otherVars>>

NextTick == Tick
SpecTick == InitTick /\ [][NextTick]_vars

\* C16: a tick run again on the same snapshot and configuration leaves the relative,
\* standings and vehicle-class outputs as they are, whatever the iteration order of the
\* class list and whatever the earlier tick left behind.
C16_Idempotent ==
    [][(pc = "done" /\ pc' = "done") =>
          <<relative, standings, vehicle_classes>>' = <<relative, standings, vehicle_classes>>]_vars

\* a second tick on a snapshot of two classes, iterating them in descending order
C16_Witness ==
    /\ pc = "done"
    /\ ticks = 2
    /\ Len(unique_veh_class) = 2
    /\ unique_veh_class[1] > unique_veh_class[2]
    /\ Len(vehicle_classes) > 2

Slot0Hidden == InRace /\ mVehicles[1].mInGarageStall

----------------------------------------------------------------------------
(* The module's thread: start(), the stop signal, the loop of __calculation *)

LoopVehicle(dist, garage, class, place) ==
    [mLapDist |-> dist, mInGarageStall |-> garage, mVehicleClass |-> class,
     mPlace |-> place, mBestLapTime |-> 0]

\* the snapshots the telemetry shows in turn: two cars of one class, three cars of two
\* classes, a race with the only car in its garage stall
LoopSnapshots ==
    {[mLapDist |-> FreeTrack, mSession |-> 1, mNumVehicles |-> 2, players_scor_index |-> 0,
      mVehicles |-> <<LoopVehicle(0, FALSE, 1, 1), LoopVehicle(1, FALSE, 1, 2)>>],
     [mLapDist |-> FreeTrack, mSession |-> 1, mNumVehicles |-> 3, players_scor_index |-> 1,
      mVehicles |-> <<LoopVehicle(0, FALSE, 1, 2), LoopVehicle(1, FALSE, 2, 1),
                      LoopVehicle(2, FALSE, 1, 3)>>],
     [mLapDist |-> FreeTrack, mSession |-> 10, mNumVehicles |-> 1, players_scor_index |-> 0,
      mVehicles |-> <<LoopVehicle(0, TRUE, 1, 1)>>]}

Snapshot ==
    [mLapDist |-> mLapDist, mSession |-> mSession, mNumVehicles |-> mNumVehicles,
     players_scor_index |-> players_scor_index, mVehicles |-> mVehicles]

\* the module after __init__, the vehicle off the track, any snapshot
InitLoop ==
    /\ pc = "input"
    /\ NoLoop
    /\ NoWheels
    /\ NoOverlay
    /\ NoDistance
    /\ \E first \in LoopSnapshots :
          /\ mLapDist = first.mLapDist
          /\ mSession = first.mSession
          /\ mNumVehicles = first.mNumVehicles
          /\ mVehicles = first.mVehicles
          /\ players_scor_index = first.players_scor_index
    /\ \E split \in BOOLEAN :
          setting_user = [DefaultSetting EXCEPT !.enable_multi_class_split_mode = split]
    /\ set_defaults
    /\ window_call = NoWindowCall

\* the telemetry shows another snapshot
Telemetry ==
    /\ \E next \in LoopSnapshots \ {Snapshot} :
          /\ mLapDist' = next.mLapDist
          /\ mSession' = next.mSession
          /\ mNumVehicles' = next.mNumVehicles
          /\ mVehicles' = next.mVehicles
          /\ players_scor_index' = next.players_scor_index
    /\ UNCHANGED <<pc, distVars, setting_user, outVars, standVars, ctlVars, threadVars,
                   on_track, finished, ticks, otherVars>>

\* the vehicle enters or leaves the track: state() changes
StateChange ==
    /\ on_track' = ~on_track
    /\ UNCHANGED <<pc, distVars, snapVars, outVars, standVars, ctlVars, threadVars,
                   finished, ticks, otherVars>>

\* line 56: if self.stopped
start_allowed_when_not_running == stopped \/ ~running
start_allowed == stopped

\* start(), lines 56-60: the caller finds stopped set and starts the thread, whose
\* locals are set at lines 66-70
Start ==
    /\ caller_pc = "idle"
    /\ start_allowed
    /\ stopped' = FALSE
    /\ running' = TRUE
    /\ thread_pc' = "while"
    /\ checked' = FALSE
    /\ update_interval' = "idle"
    /\ caller_pc' = "append"
    /\ UNCHANGED <<pc, distVars, snapVars, outVars, standVars, active_module_list,
                   relative_index, class_pos_list, stand_idx_list, on_track, finished, ticks,
                   otherVars>>

\* start(), line 61
StartAppend ==
    /\ caller_pc = "append"
    /\ active_module_list' = Append(active_module_list, "relative")
    /\ caller_pc' = "idle"
    /\ UNCHANGED <<pc, distVars, snapVars, outVars, standVars, running, stopped, threadVars,
                   on_track, finished, ticks, otherVars>>

\* the stop signal: the caller of start(), after start() has returned, clears running
Stop ==
    /\ caller_pc = "idle"
    /\ running
    /\ running' = FALSE
    /\ UNCHANGED <<pc, distVars, snapVars, outVars, standVars, stopped, active_module_list,
                   caller_pc, threadVars, on_track, finished, ticks, otherVars>>

\* list.remove(x): the list without the first occurrence of x
RemoveFirst(list, x) ==
    LET i == PyIndexOf(list, x) + 1
    IN SubSeq(list, 1, i - 1) \o SubSeq(list, i + 1, Len(list))

\* line 72: while self.running
LoopTest ==
    /\ thread_pc = "while"
    /\ thread_pc' = IF running THEN "state" ELSE "defaults"
    /\ UNCHANGED <<pc, distVars, snapVars, outVars, standVars, ctlVars, checked,
                   update_interval, relative_index, class_pos_list, stand_idx_list,
                   on_track, finished, ticks, otherVars>>

\* lines 75-77: if not checked: update_interval = active_interval
active_interval_switch(was_checked, interval) == IF ~was_checked THEN "active" ELSE interval

\* lines 96-98: if checked: update_interval = idle_interval
idle_interval_switch_never(was_checked, interval) == interval
idle_interval_switch(was_checked, interval) == IF was_checked THEN "idle" ELSE interval

\* lines 73-89 with state() true: the switch to the active interval and the computation
\* of the tick's lists, which ends the thread when the relative builder raises
TickCompute ==
    /\ thread_pc = "state"
    /\ on_track
    /\ checked' = TRUE
    /\ update_interval' = active_interval_switch(checked, update_interval)
    /\ IF tick_raises
       THEN /\ thread_pc' = "raised"
            /\ UNCHANGED <<unique_veh_class, relative_index, class_pos_list, stand_idx_list,
                           finished>>
       ELSE /\ thread_pc' = "publish_classes"
            /\ \E uniq \in ListsOfSet(class_set(veh_total)) :
                  /\ unique_veh_class' = uniq
                  /\ relative_index' = tick_relative
                  /\ class_pos_list' = tick_classes(uniq)
                  /\ stand_idx_list' = tick_standings(uniq)
                  /\ finished' = finished \cup
                                   {<<tick_classes(uniq), tick_relative, tick_standings(uniq)>>}
    /\ UNCHANGED <<pc, distVars, snapVars, relative, vehicle_classes, standVars, ctlVars,
                   on_track, ticks, otherVars>>

\* lines 73 and 95-99 with state() false: back to the idle interval
TickIdle ==
    /\ thread_pc = "state"
    /\ ~on_track
    /\ checked' = FALSE
    /\ update_interval' = idle_interval_switch(checked, update_interval)
    /\ thread_pc' = "sleep"
    /\ UNCHANGED <<pc, distVars, snapVars, outVars, standVars, ctlVars, relative_index,
                   class_pos_list, stand_idx_list, on_track, finished, ticks, otherVars>>

\* the values lines 92-94 assign
output_relative_partial == Prefix(relative_index, 3)
output_relative == relative_index
output_classes == class_pos_list
output_standings == stand_idx_list

\* line 92: self.mctrl.vehicle_classes = class_pos_list
PublishClasses ==
    /\ thread_pc = "publish_classes"
    /\ vehicle_classes' = output_classes
    /\ thread_pc' = "publish_relative"
    /\ UNCHANGED <<pc, distVars, snapVars, relative, unique_veh_class, standVars, ctlVars,
                   checked, update_interval, relative_index, class_pos_list, stand_idx_list,
                   on_track, finished, ticks, otherVars>>

\* line 93: self.relative = relative_index
PublishRelative ==
    /\ thread_pc = "publish_relative"
    /\ relative' = output_relative
    /\ thread_pc' = "publish_standings"
    /\ UNCHANGED <<pc, distVars, snapVars, vehicle_classes, unique_veh_class, standVars,
                   ctlVars, checked, update_interval, relative_index, class_pos_list,
                   stand_idx_list, on_track, finished, ticks, otherVars>>

\* line 94: self.standings = stand_idx_list
PublishStandings ==
    /\ thread_pc = "publish_standings"
    /\ standings' = output_standings
    /\ thread_pc' = "sleep"
    /\ UNCHANGED <<pc, distVars, snapVars, outVars, window_call, ctlVars, checked,
                   update_interval, relative_index, class_pos_list, stand_idx_list,
                   on_track, finished, ticks, otherVars>>

\* line 101: time.sleep(update_interval)
Sleep ==
    /\ thread_pc = "sleep"
    /\ thread_pc' = "while"
    /\ UNCHANGED <<pc, distVars, snapVars, outVars, standVars, ctlVars, checked,
                   update_interval, relative_index, class_pos_list, stand_idx_list,
                   on_track, finished, ticks, otherVars>>

\* line 103: self.set_defaults()
ExitDefaults ==
    /\ thread_pc = "defaults"
    /\ relative' = None
    /\ standings' = None
    /\ vehicle_classes' = None
    /\ thread_pc' = "remove"
    /\ UNCHANGED <<pc, distVars, snapVars, unique_veh_class, window_call, ctlVars, checked,
                   update_interval, relative_index, class_pos_list, stand_idx_list,
                   on_track, finished, ticks, otherVars>>

\* line 104: self.cfg.active_module_list.remove(self), ValueError when it is not there
ExitRemove ==
    /\ thread_pc = "remove"
    /\ IF Contains(active_module_list, "relative")
       THEN /\ active_module_list' = RemoveFirst(active_module_list, "relative")
            /\ thread_pc' = "stopped"
       ELSE /\ active_module_list' = active_module_list
            /\ thread_pc' = "raised"
    /\ UNCHANGED <<pc, distVars, snapVars, outVars, standVars, running, stopped, caller_pc,
                   checked, update_interval, relative_index, class_pos_list, stand_idx_list,
                   on_track, finished, ticks, otherVars>>

\* line 105: self.stopped = True, the last state change of the thread
ExitStopped ==
    /\ thread_pc = "stopped"
    /\ closing < MaxClosing
    /\ stopped' = TRUE
    /\ thread_pc' = "none"
    /\ closing' = closing + 1
    /\ UNCHANGED <<pc, distVars, snapVars, outVars, standVars, running, active_module_list,
                   caller_pc, checked, update_interval, relative_index, class_pos_list,
                   stand_idx_list, on_track, finished, ticks, wheelVars, autoVars>>

\* line 106: logger.info("relative module closed"), after which the thread is over
ExitLog ==
    /\ closing > 0
    /\ closing' = closing - 1
    /\ UNCHANGED <<pc, distVars, snapVars, outVars, standVars, ctlVars, threadVars, on_track,
                   finished, ticks, wheelVars, autoVars>>

ThreadStep ==
    \/ LoopTest
    \/ TickCompute
    \/ TickIdle
    \/ PublishClasses
    \/ PublishRelative
    \/ PublishStandings
    \/ Sleep
    \/ ExitDefaults
    \/ ExitRemove
    \/ ExitStopped
    \/ ExitLog

NextLoop == Telemetry \/ StateChange \/ Start \/ StartAppend \/ Stop \/ ThreadStep
SpecLoop == InitLoop /\ [][NextLoop]_vars

\* the lists of the tick computations that have returned
FinishedClasses == {result[1] : result \in finished}
FinishedRelative == {result[2] : result \in finished}
FinishedStandings == {result[3] : result \in finished}

\* C17: a reader sees in each output field the default value or a complete list of a
\* finished tick computation, and a field changes only when one of lines 92-94 assigns
\* the finished list of the thread to it or set_defaults resets it.
C17_CompleteLists ==
    /\ [](/\ relative \in {None} \cup FinishedRelative
          /\ standings \in {None} \cup FinishedStandings
          /\ vehicle_classes \in {None} \cup FinishedClasses)
    /\ [][/\ relative' # relative =>
                \/ thread_pc = "defaults" /\ relative' = None
                \/ thread_pc = "publish_relative" /\ relative' = relative_index
          /\ standings' # standings =>
                \/ thread_pc = "defaults" /\ standings' = None
                \/ thread_pc = "publish_standings" /\ standings' = stand_idx_list
          /\ vehicle_classes' # vehicle_classes =>
                \/ thread_pc = "defaults" /\ vehicle_classes' = None
                \/ thread_pc = "publish_classes" /\ vehicle_classes' = class_pos_list]_vars

\* in the middle of the publication of a later tick: the class list is the new one, the
\* relative list still the whole list of the earlier tick
C17_Witness ==
    /\ thread_pc = "publish_relative"
    /\ vehicle_classes = class_pos_list
    /\ relative \in FinishedRelative
    /\ relative # relative_index
    /\ Len(relative) = WindowSize

\* C18: a reader that reads vehicle_classes, relative and standings at any point sees
\* the three lists of one and the same tick.
C18_AtomicPublish ==
    (vehicle_classes # None /\ relative # None /\ standings # None) =>
        <<vehicle_classes, relative, standings>> \in finished

\* the module has been told to stop, start() has returned and the thread has no
\* statement left to run
CancellationOver ==
    /\ ~running
    /\ caller_pc = "idle"
    /\ thread_pc \in {"none", "raised"}

CancellationDone ==
    /\ stopped
    /\ relative = None
    /\ standings = None
    /\ vehicle_classes = None
    /\ ~Contains(active_module_list, "relative")

\* C19: once running is False the loop exits, the outputs are reset to None, the module
\* is removed from the active module list and stopped becomes True: a thread that has
\* run to its end after the stop signal has left the module in that state.
C19_Cancellation == CancellationOver => CancellationDone

----------------------------------------------------------------------------
(* Properties of the tick: exceptions *)

\* C21: no exception propagates out of a tick: every builder returns a value for every
\* snapshot and configuration, also when the garage rule leaves no vehicle, the player
\* included, for the relative list.
C21_NoException ==
    (pc # "input" /\ ticks > 0) => pc = "done"

----------------------------------------------------------------------------
(* Properties of the standings window: its shape *)

\* C22: with playerPlace <= topCount or totalCount <= windowLimit (playerPlace 0 for a
\* class without the player included) the window is the vehicles at places
\* 1..min(windowLimit, totalCount) in ascending place order, followed by -1.
C22_PlainWindow ==
    (/\ pc = "done"
     /\ \/ window_call.plr_place <= window_call.veh_top
        \/ window_call.veh_total <= window_call.veh_limit) =>
        standings = [place \in 1..Min(window_call.veh_limit, window_call.veh_total) |->
                        IndexAtPlace(place)] \o <<-1>>

\* a class without the player, larger than its limit, the limit above topCount
C22_Witness ==
    /\ pc = "done"
    /\ window_call.plr_place = 0
    /\ window_call.veh_total > window_call.veh_limit
    /\ window_call.veh_limit > window_call.veh_top
    /\ Len(standings) = window_call.veh_limit + 1
    /\ standings[window_call.veh_limit] = IndexAtPlace(window_call.veh_limit)

\* the places whose vehicle is in the window, and those beyond the top places
ShownPlaces == {place \in 1..window_call.veh_total : Contains(standings, IndexAtPlace(place))}
NearbyPlaces == ShownPlaces \ (1..window_call.veh_top)
Lowest(set) == CHOOSE x \in set : \A y \in set : x <= y
Highest(set) == CHOOSE x \in set : \A y \in set : x >= y
Centred ==
    /\ pc = "done"
    /\ window_call.plr_place > window_call.veh_top
    /\ window_call.veh_total > window_call.veh_limit
TakenInFront == window_call.plr_place - Lowest(NearbyPlaces)
TakenBehind == Highest(NearbyPlaces) - window_call.plr_place

\* C23: with playerPlace > topCount and totalCount > windowLimit the places shown beyond
\* the top form one contiguous range that holds the player's place, lies above topCount
\* and holds totalCount only as the player's own place; the numbers of places taken in
\* front of and behind the player differ by at most one unless the front range reached
\* topCount + 1 or the rear range reached totalCount - 1.
C23_NearbyRange ==
    Centred =>
        /\ window_call.plr_place \in NearbyPlaces
        /\ NearbyPlaces = Lowest(NearbyPlaces)..Highest(NearbyPlaces)
        /\ Lowest(NearbyPlaces) > window_call.veh_top
        /\ window_call.veh_total \in NearbyPlaces =>
              window_call.plr_place = window_call.veh_total
        /\ \/ TakenInFront - TakenBehind \in {-1, 0, 1}
           \/ Lowest(NearbyPlaces) = window_call.veh_top + 1
           \/ Highest(NearbyPlaces) = window_call.veh_total - 1

\* C23 as the code has it: the balance of front and rear also ends when the player holds
\* place totalCount, where no place behind the player exists.
C23_NearbyRangeOrLast ==
    Centred =>
        /\ window_call.plr_place \in NearbyPlaces
        /\ NearbyPlaces = Lowest(NearbyPlaces)..Highest(NearbyPlaces)
        /\ Lowest(NearbyPlaces) > window_call.veh_top
        /\ window_call.veh_total \in NearbyPlaces =>
              window_call.plr_place = window_call.veh_total
        /\ \/ TakenInFront - TakenBehind \in {-1, 0, 1}
           \/ Lowest(NearbyPlaces) = window_call.veh_top + 1
           \/ Highest(NearbyPlaces) = window_call.veh_total - 1
           \/ window_call.plr_place = window_call.veh_total

\* the player in the last place with two places taken in front, none behind, and room
\* left in front
C23_Witness ==
    /\ Centred
    /\ window_call.plr_place = window_call.veh_total
    /\ TakenInFront >= 2
    /\ TakenBehind = 0
    /\ Lowest(NearbyPlaces) > window_call.veh_top + 1

\* the player in mid-field with as many places taken in front as behind
C23_Balanced ==
    /\ Centred
    /\ TakenInFront = TakenBehind
    /\ TakenInFront >= 1
    /\ Lowest(NearbyPlaces) > window_call.veh_top + 1
    /\ Highest(NearbyPlaces) < window_call.veh_total - 1

----------------------------------------------------------------------------
(* Properties of the standings list: the limits and the order of its groups *)

\* the position of a vehicle in its class, by overall place
ClassPosition(i) == Cardinality({j \in ClassMates(i) : PlaceOf(j) < PlaceOf(i)}) + 1

\* the vehicles of the g-th group of the standings list, without its gap
GroupList(g) ==
    SubSeq(standings, IF g = 1 THEN 1 ELSE GroupEnds[g - 1] + 1, GroupEnds[g] - 1)
ClassSize(c) == Cardinality({i \in Slots : ClassOf(i) = c})
PlayerLimit == Max(setting_user.max_vehicles_per_split_player, TopCount + 2)
OthersLimit == Max(setting_user.max_vehicles_per_split_others, TopCount)

\* the class positions and indices of a class, by class position
ClassPairs(c) ==
    Sorted(SelectSeq([k \in 1..veh_total |-> <<ClassPosition(k - 1), k - 1>>],
                     LAMBDA pair : ClassOf(pair[2]) = c))

\* C24: in class-split mode the player's class group is windowed with
\* max(max_vehicles_per_split_player, topCount + 2) around the player's position in the
\* class, and every other class group lists exactly the class positions
\* 1..min(max(max_vehicles_per_split_others, topCount), class size).
C24_GroupLimits ==
    (pc = "done" /\ SplitAsked) =>
        \A g \in 1..Len(GroupEnds) :
            LET c == GroupClass(g)
                group == GroupList(g)
            IN IF c = ClassOf(players_scor_index)
               THEN /\ group \o <<-1>> =
                          calc_standings_index(TopCount, ClassSize(c), PlayerLimit,
                                               ClassPosition(players_scor_index),
                                               ClassPairs(c))
                    /\ Len(group) = Min(PlayerLimit, ClassSize(c))
                    /\ Contains(group, players_scor_index)
               ELSE /\ Len(group) = Min(OthersLimit, ClassSize(c))
                    /\ \A k \in 1..Len(group) :
                          ClassOf(group[k]) = c /\ ClassPosition(group[k]) = k

\* another class cut to its limit below the limit of the player's class, the player's
\* class shown whole with the player beyond the top places
C24_Witness ==
    /\ pc = "done"
    /\ SplitAsked
    /\ OthersLimit < PlayerLimit
    /\ ClassPosition(players_scor_index) > TopCount
    /\ \E g \in 1..Len(GroupEnds) :
          /\ GroupClass(g) # ClassOf(players_scor_index)
          /\ Len(GroupList(g)) = OthersLimit
          /\ ClassSize(GroupClass(g)) > OthersLimit
    /\ \E g \in 1..Len(GroupEnds) :
          /\ GroupClass(g) = ClassOf(players_scor_index)
          /\ Len(GroupList(g)) = ClassSize(GroupClass(g))

\* the player's class cut to its limit around the player
C24_PlayerCut ==
    /\ pc = "done"
    /\ SplitAsked
    /\ ClassPosition(players_scor_index) > TopCount
    /\ ClassSize(ClassOf(players_scor_index)) > PlayerLimit

\* the place a group is ordered by: the class position in class-split mode, the overall
\* place in combined mode
OrderPlace(i) == IF SplitAsked THEN ClassPosition(i) ELSE PlaceOf(i)

\* C25: within the combined list and within each class group the vehicle indices are in
\* strictly ascending place order (overall place in combined mode, class position in
\* class-split mode), and no vehicle index occurs twice in the standings list.
C25_AscendingPlaces ==
    pc = "done" =>
        /\ \A g \in 1..Len(GroupEnds) :
              \A k \in 1..(Len(GroupList(g)) - 1) :
                  OrderPlace(GroupList(g)[k]) < OrderPlace(GroupList(g)[k + 1])
        /\ \A j, k \in VehiclePositions : j # k => standings[j] # standings[k]

\* a class group of three or more in class-split mode whose vehicle indices are not in
\* ascending order
C25_Witness ==
    /\ pc = "done"
    /\ \E g \in 1..Len(GroupEnds) :
          /\ Len(GroupList(g)) >= 3
          /\ GroupList(g)[1] > GroupList(g)[2]
          /\ \E k \in 1..Len(GroupList(g)) : PlaceOf(GroupList(g)[k]) # OrderPlace(GroupList(g)[k])

----------------------------------------------------------------------------
(* Properties of the class list: its order *)

\* C29: the published vehicle_classes list has exactly one entry per vehicle slot 0..N-1
\* and is ordered by vehicle index: the entry at list position i describes the vehicle
\* with index i, for any classes and overall positions of the N >= 1 vehicles.
C29_OneEntryPerSlot ==
    pc = "done" =>
        /\ Len(vehicle_classes) = mNumVehicles
        /\ \A i \in 0..(mNumVehicles - 1) :
              /\ vehicle_classes[i + 1][1] = i
              /\ vehicle_classes[i + 1][3] = ClassOf(i)

\* tied overall positions, the first vehicle in the class that is grouped last
C29_Witness ==
    /\ pc = "done"
    /\ mNumVehicles >= 3
    /\ ~PlacesArePermutation
    /\ ClassOf(0) > ClassOf(1)
    /\ PlaceOf(0) = PlaceOf(2)
    /\ vehicle_classes[1][1] = 0

----------------------------------------------------------------------------
(* Properties of the loop: the wait interval *)

\* C26: the loop of the relative module starts with the idle interval; the step that
\* ends a tick leaves the active interval if the vehicle was on track at the tick and
\* the idle interval otherwise, and the interval stays as it is until the sleep that
\* follows the tick has used it, whatever the vehicle does in between.
C26_IntervalFollowsState ==
    [][/\ (thread_pc = "none" /\ thread_pc' = "while") => update_interval' = "idle"
       /\ (thread_pc = "state" /\ thread_pc' # "state") =>
              update_interval' = IF on_track THEN "active" ELSE "idle"
       /\ thread_pc \in {"publish_classes", "publish_relative", "publish_standings",
                         "sleep"} =>
              update_interval' = update_interval]_vars

\* a sleep with the active interval after a tick on track, the vehicle off the track
\* again by the time of the sleep
C26_Witness ==
    /\ thread_pc = "sleep"
    /\ update_interval = "active"
    /\ checked
    /\ ~on_track
    /\ relative # None

\* a sleep with the idle interval after the vehicle has left the track
C26_BackToIdle ==
    /\ thread_pc = "sleep"
    /\ update_interval = "idle"
    /\ relative # None

----------------------------------------------------------------------------
(* Properties of the loop: the threads of the module *)

\* the threads of __calculation that have not returned: the one in the loop or on its
\* way out, and those that have set stopped and have their last log line to write
Working == IF thread_pc \in {"none", "raised"} THEN 0 ELSE 1
AliveThreads == Working + closing
OutputsCleared == relative = None /\ standings = None /\ vehicle_classes = None

\* C28: at most one calculation thread of the relative module is alive at any time, and
\* whenever stopped is True the outputs relative, standings and vehicle_classes are None.
C28_OneThreadAlive ==
    /\ AliveThreads <= 1
    /\ stopped => OutputsCleared

\* C28 as the code has it: no thread is in the loop or on its way to line 105 while
\* stopped is True, so that the threads alive are at most one such thread and the
\* threads that have only their last log line to write; a thread is started only from
\* stopped True with no such thread, stopped is set back to True only by the step of
\* line 105, after which the thread changes nothing, and the outputs are None whenever
\* stopped is True.
C28_OneThreadWorking ==
    /\ [](stopped => (Working = 0 /\ OutputsCleared))
    /\ [][/\ (caller_pc = "idle" /\ caller_pc' = "append") =>
                (stopped /\ ~stopped' /\ Working = 0 /\ thread_pc' = "while")
          /\ (stopped' /\ ~stopped) => (thread_pc = "stopped" /\ thread_pc' = "none")
          /\ closing' < closing => UNCHANGED <<outVars, standVars, ctlVars, threadVars>>]_vars

\* a second run of the module has published its lists while the thread of the first run
\* has not yet written its last log line
C28_Witness ==
    /\ closing = 1
    /\ Working = 1
    /\ ~stopped
    /\ relative # None
    /\ standings # None

\* the stop signal given and the thread still on its way out: start() does nothing
C28_StartIgnored ==
    /\ ~running
    /\ ~stopped
    /\ thread_pc \in {"sleep", "defaults", "remove", "stopped"}
    /\ caller_pc = "idle"
    /\ ~ENABLED Start

----------------------------------------------------------------------------
(* module_wheels.py: the loop of update_data *)

relVars == <<pc, distVars, snapVars, outVars, standVars, ctlVars, threadVars, on_track,
             finished, ticks, closing>>

\* the relative module after __init__, on a snapshot of one vehicle
NoRelative ==
    /\ pc = "input"
    /\ NoLoop
    /\ NoDistance
    /\ mLapDist = 0
    /\ mSession = 1
    /\ mNumVehicles = 1
    /\ mVehicles = <<DefaultVehicle(0)>>
    /\ players_scor_index = 0
    /\ setting_user = DefaultSetting
    /\ set_defaults
    /\ window_call = NoWindowCall

\* lines 41-42: the locals of update_data before the loop, for a vehicle on or off the
\* track and a configuration with or without the wheel radii of a vehicle
InitWheels ==
    /\ NoRelative
    /\ NoOverlay
    /\ wheels_pc = "wait"
    /\ event_set = FALSE
    /\ state_active \in BOOLEAN
    /\ reset = FALSE
    /\ wheels_interval = "active"
    /\ radius_front = 0
    /\ radius_rear = 0
    /\ vehicle_id \in {1, 2}
    /\ mcfg \in {[last_vehicle_info |-> 0, last_wheel_radius_front |-> 0,
                  last_wheel_radius_rear |-> 0],
                 [last_vehicle_info |-> 1, last_wheel_radius_front |-> 1,
                  last_wheel_radius_rear |-> 1]}
    /\ saved_mcfg = mcfg
    /\ tick_state = "none"

\* state.active changes: the vehicle enters or leaves the track
WheelsStateChange ==
    /\ wheels_pc # "closed"
    /\ state_active' = ~state_active
    /\ UNCHANGED <<relVars, autoVars, wheels_pc, event_set, reset, wheels_interval,
                   radius_front, radius_rear, vehicle_id, mcfg, saved_mcfg, tick_state>>

\* the player changes to another vehicle while off the track
VehicleChange ==
    /\ wheels_pc # "closed"
    /\ ~state_active
    /\ vehicle_id' = 3 - vehicle_id
    /\ UNCHANGED <<relVars, autoVars, wheels_pc, event_set, state_active, reset,
                   wheels_interval, radius_front, radius_rear, mcfg, saved_mcfg, tick_state>>

\* the module is told to stop: _event is set
WheelsStop ==
    /\ wheels_pc # "closed"
    /\ ~event_set
    /\ event_set' = TRUE
    /\ UNCHANGED <<relVars, autoVars, wheels_pc, state_active, reset, wheels_interval,
                   radius_front, radius_rear, vehicle_id, mcfg, saved_mcfg, tick_state>>

\* line 52: while not self._event.wait(update_interval)
WheelsWait ==
    /\ wheels_pc = "wait"
    /\ wheels_pc' = IF event_set THEN "closed" ELSE "body"
    /\ UNCHANGED <<relVars, autoVars, event_set, state_active, reset, wheels_interval,
                   radius_front, radius_rear, vehicle_id, mcfg, saved_mcfg, tick_state>>

\* lines 59-70: the wheel radius the body starts from when the vehicle enters the track
restored_radius(saved) == IF mcfg.last_vehicle_info = vehicle_id THEN saved ELSE 0

\* lines 97-113: a wheel radius after the body: as it was, or the mean of the samples
measured_radius(radius) == {radius} \cup (1..MaxRadius)

\* lines 55-57: if not reset: update_interval = self.active_interval
wheels_active_switch(was_reset, interval) == IF ~was_reset THEN "active" ELSE interval

\* lines 135-137: if reset: update_interval = self.idle_interval
wheels_idle_switch(was_reset, interval) == IF was_reset THEN "idle" ELSE interval

\* lines 53-132 with state.active true
WheelsBodyActive ==
    /\ wheels_pc = "body"
    /\ state_active
    /\ reset' = TRUE
    /\ wheels_interval' = wheels_active_switch(reset, wheels_interval)
    /\ LET front == IF reset THEN radius_front
                    ELSE restored_radius(mcfg.last_wheel_radius_front)
           rear == IF reset THEN radius_rear
                   ELSE restored_radius(mcfg.last_wheel_radius_rear)
       IN /\ radius_front' \in measured_radius(front)
          /\ radius_rear' \in measured_radius(rear)
    /\ tick_state' = "on"
    /\ wheels_pc' = "wait"
    /\ UNCHANGED <<relVars, autoVars, event_set, state_active, vehicle_id, mcfg, saved_mcfg>>

\* lines 134-142 with state.active false
WheelsBodyIdle ==
    /\ wheels_pc = "body"
    /\ ~state_active
    /\ reset' = FALSE
    /\ wheels_interval' = wheels_idle_switch(reset, wheels_interval)
    /\ mcfg' = IF reset /\ radius_front # 0 /\ radius_rear # 0
               THEN [last_vehicle_info |-> vehicle_id,
                     last_wheel_radius_front |-> radius_front,
                     last_wheel_radius_rear |-> radius_rear]
               ELSE mcfg
    /\ saved_mcfg' = IF reset THEN mcfg' ELSE saved_mcfg
    /\ tick_state' = "off"
    /\ wheels_pc' = "wait"
    /\ UNCHANGED <<relVars, autoVars, event_set, state_active, radius_front, radius_rear,
                   vehicle_id>>

NextWheels ==
    \/ WheelsStateChange
    \/ VehicleChange
    \/ WheelsStop
    \/ WheelsWait
    \/ WheelsBodyActive
    \/ WheelsBodyIdle
SpecWheels == InitWheels /\ [][NextWheels]_vars

\* the interval the claim gives a wait: by the state the loop body read last or, before
\* the first body, by the state at the wait
IntervalByState ==
    IF tick_state = "on" \/ (tick_state = "none" /\ state_active) THEN "active" ELSE "idle"

\* C27: at every wait of the wheels module's loop, from the first one after the loop
\* starts, the interval is the idle one when the vehicle is not on track and the active
\* one when it is.
C27_WheelsIntervalFollowsState ==
    [][(wheels_pc = "wait" /\ wheels_pc' # "wait") => wheels_interval = IntervalByState]_vars

\* a body has found the vehicle off the track and the wait after it has the active
\* interval
C27_IdleAtActivePace ==
    /\ wheels_pc = "wait"
    /\ tick_state = "off"
    /\ ~state_active
    /\ wheels_interval = "active"

----------------------------------------------------------------------------
(* overlay_control.py: the preset loaded for a detected simulator *)

\* StateTimer(interval=1.0), in halves of a second
auto_load_interval == 2

SimNames == {"sim1", "sim2"}
PresetNames == {"default", "race"}

\* StateTimer.timeout(now): whether the interval has passed, and _last afterwards
timeout(last, seconds) ==
    LET corrected == IF last > seconds THEN seconds ELSE last
    IN IF seconds - corrected < auto_load_interval
       THEN [fired |-> FALSE, last |-> corrected]
       ELSE [fired |-> TRUE, last |-> seconds]

\* line 143: cfg.last_detected_sim = sim_name
remember_detected_never(name, last) == last
remember_detected(name, last) == name

\* OverlayState after __init__ with the presets of the configuration, the last loaded
\* setting being "default"
InitAuto ==
    /\ NoRelative
    /\ NoWheels
    /\ now = 0
    /\ timer_last = 0
    /\ app_loaded \in BOOLEAN
    /\ sim_name \in {"", "sim1"}
    /\ last_detected_sim = "None"
    /\ primary_preset \in [SimNames -> PresetNames \cup {""}]
    /\ last_setting = "default"
    /\ filename_setting = "default"
    /\ run_reloads = 0

\* time.perf_counter() moves on
ClockTick ==
    /\ now < MaxNow
    /\ now' = now + 1
    /\ UNCHANGED <<relVars, wheelVars, timer_last, app_loaded, sim_name, last_detected_sim,
                   primary_preset, last_setting, filename_setting, run_reloads>>

\* the application has finished loading
AppLoaded ==
    /\ ~app_loaded
    /\ app_loaded' = TRUE
    /\ UNCHANGED <<relVars, wheelVars, now, timer_last, sim_name, last_detected_sim,
                   primary_preset, last_setting, filename_setting, run_reloads>>

\* a simulator starts, ends or gives way to another one
SimChange ==
    /\ sim_name' \in (SimNames \cup {""}) \ {sim_name}
    /\ run_reloads' = 0
    /\ UNCHANGED <<relVars, wheelVars, now, timer_last, app_loaded, last_detected_sim,
                   primary_preset, last_setting, filename_setting>>

\* the user sets or clears the primary preset of a simulator
PresetChange ==
    /\ \E name \in SimNames :
       \E preset \in (PresetNames \cup {""}) \ {primary_preset[name]} :
          primary_preset' = [primary_preset EXCEPT ![name] = preset]
    /\ UNCHANGED <<relVars, wheelVars, now, timer_last, app_loaded, sim_name,
                   last_detected_sim, last_setting, filename_setting, run_reloads>>

\* the loader handles a reload signal: the preset named by cfg.filename.setting is loaded
PresetLoaded ==
    /\ last_setting # filename_setting
    /\ last_setting' = filename_setting
    /\ UNCHANGED <<relVars, wheelVars, now, timer_last, app_loaded, sim_name,
                   last_detected_sim, primary_preset, filename_setting, run_reloads>>

\* lines 125-157: __auto_load_preset
AutoLoadPreset ==
    LET timer == timeout(timer_last, now)
        preset_name == primary_preset[sim_name]
    IN /\ timer_last' = timer.last
       /\ IF ~timer.fired \/ ~app_loaded
          THEN UNCHANGED <<last_detected_sim, filename_setting, run_reloads>>
          ELSE IF sim_name = ""
          THEN /\ last_detected_sim' = "None"
               /\ UNCHANGED <<filename_setting, run_reloads>>
          ELSE IF sim_name = last_detected_sim
          THEN UNCHANGED <<last_detected_sim, filename_setting, run_reloads>>
          ELSE /\ last_detected_sim' = remember_detected(sim_name, last_detected_sim)
               /\ IF preset_name = "" \/ preset_name = last_setting
                  THEN UNCHANGED <<filename_setting, run_reloads>>
                  ELSE /\ filename_setting' = preset_name
                       /\ run_reloads' = run_reloads + 1
       /\ UNCHANGED <<relVars, wheelVars, now, app_loaded, sim_name, primary_preset,
                      last_setting>>

NextAuto ==
    \/ ClockTick
    \/ AppLoaded
    \/ SimChange
    \/ PresetChange
    \/ PresetLoaded
    \/ AutoLoadPreset
SpecAuto == InitAuto /\ [][NextAuto]_vars

\* the timer of the auto-load has run out
TimerDue == now - Min(timer_last, now) >= auto_load_interval

\* C30: the reload signal is emitted in a timer tick only if the application is fully
\* loaded, a simulator name is detected that differs from last_detected_sim, and the
\* simulator's primary preset name is non-empty and differs from the last loaded
\* setting; the tick that emits has set last_detected_sim to the detected name, and at
\* most one reload is emitted while the same simulator stays detected.
C30_OneReloadPerDetection ==
    /\ [](run_reloads <= 1)
    /\ [][run_reloads' = run_reloads + 1 =>
             /\ TimerDue
             /\ app_loaded
             /\ sim_name # ""
             /\ sim_name # last_detected_sim
             /\ primary_preset[sim_name] # ""
             /\ primary_preset[sim_name] # last_setting
             /\ last_detected_sim' = sim_name
             /\ filename_setting' = primary_preset[sim_name]]_vars

\* after the reload for a simulator: the simulator still detected, the timer due again
\* and the simulator's primary preset set to one that is not the loaded setting
C30_Witness ==
    /\ run_reloads = 1
    /\ app_loaded
    /\ sim_name # ""
    /\ sim_name = last_detected_sim
    /\ TimerDue
    /\ last_setting = filename_setting
    /\ primary_preset[sim_name] # ""
    /\ primary_preset[sim_name] # last_setting

====
